---- MODULE Spec2Model ----
(***************************************************************************)
(* genmod annotate: the concurrent annotation pipeline.                    *)
(*                                                                         *)
(* The driver (commands/annotate_variant.py, annotate) reads a vcf, feeds  *)
(* a bounded JoinableQueue, a pool of VariantAnnotator workers annotates,  *)
(* one VariantPrinter writes the results to a temp file, the driver sorts  *)
(* that file and prints the header and the variants.                       *)
(*                                                                         *)
(* A line is a sequence of tab separated fields:                           *)
(*   <<CHROM, POS, ID, RankScore, INFO>>                                   *)
(* a line of the temp file has the sort priority in front of them.         *)
(***************************************************************************)
EXTENDS Integers, Sequences, FiniteSets, TLC

\* ---------------------------------------------------------------- bounds
MaxRecords == 2      \* data lines of the input
MaxWorkers == 2      \* largest value of --processes
MaxFailures == 1     \* annotation calls that raise in one run
MaxSortLines == 3    \* lines of a temp file handed to the sorter alone
QueueSize == 1       \* stands for JoinableQueue(maxsize=1000)

\* ------------------------------------------------------------ input data
None == <<>>

MetaLine == <<"##", "fileformat">>
HeaderLine == <<"#CHROM">>

RecA == <<"2", "1", "A", "5", ".">>
RecB == <<"2", "1", "B", "5", ".">>
RecC == <<"1", "2", "C", "7", ".">>
RecD == <<"2", "2", "D", "3", ".">>

Records == {RecA, RecB, RecC, RecD}

\* the data lines an input is made of: A and B have equal sort keys
InputRecords == {RecA, RecB, RecC}

Distinct(s) == \A i, j \in 1..Len(s) : i # j => s[i] # s[j]

IntOf(s) ==
    CASE s = "1" -> 1
      [] s = "2" -> 2
      [] s = "3" -> 3
      [] s = "5" -> 5
      [] s = "7" -> 7
      [] OTHER -> 0

RECURSIVE SeqsUpTo(_, _)
SeqsUpTo(S, n) ==
    IF n = 0 THEN {<<>>}
    ELSE LET shorter == SeqsUpTo(S, n - 1)
         IN  shorter \cup {Append(s, x) : s \in {t \in shorter : Len(t) = n - 1}, x \in S}

\* line.startswith('#')
StartsWithHash(line) == Len(line) > 0 /\ line[1] \in {"##", "#CHROM"}
\* line.startswith('##')
StartsWithHashHash(line) == Len(line) > 0 /\ line[1] = "##"

DataLines(file) == SelectSeq(file, LAMBDA l : ~StartsWithHash(l))

\* ------------------------------------------------------- command line
\* the click options of annotate that the pipeline reads
NoOptions ==
    [annotate_regions |-> FALSE, exac |-> FALSE, thousand_g |-> FALSE,
     cadd_file |-> FALSE, cadd_1000g |-> FALSE, cadd_exac |-> FALSE,
     cadd_esp |-> FALSE, cadd_indels |-> FALSE, cadd_raw |-> FALSE,
     outfile |-> FALSE, silent |-> FALSE]

CommandLines ==
    { [NoOptions EXCEPT !.outfile = TRUE],
      [NoOptions EXCEPT !.cadd_file = TRUE, !.cadd_raw = TRUE],
      [NoOptions EXCEPT !.annotate_regions = TRUE, !.silent = TRUE],
      [NoOptions EXCEPT !.exac = TRUE, !.cadd_1000g = TRUE, !.cadd_exac = TRUE,
                        !.outfile = TRUE, !.silent = TRUE] }

cpu_count == 2

Min(a, b) == IF a < b THEN a ELSE b

\* ------------------------------------------------------------- header
\* HeaderParser: the ordered metadata keys and the column-name line
EmptyHead == [meta |-> <<>>, header |-> None]

SeqRange(s) == {s[i] : i \in 1..Len(s)}

parse_meta_data(h, line) == [h EXCEPT !.meta = Append(@, line[2])]
parse_header_line(h, line) == [h EXCEPT !.header = line]

add_metadata(h, key) ==
    IF key \in SeqRange(h.meta) THEN h ELSE [h EXCEPT !.meta = Append(@, key)]

\* for line in variant_file: ... else: break
RECURSIVE ScanHeader(_, _, _)
ScanHeader(file, i, h) ==
    IF i > Len(file) \/ ~StartsWithHash(file[i]) THEN h
    ELSE ScanHeader(file, i + 1,
                    IF StartsWithHashHash(file[i]) THEN parse_meta_data(h, file[i])
                    ELSE parse_header_line(h, file[i]))

\* the lines the header scan has consumed when it breaks: the first data
\* line is one of them
RECURSIVE ScanEnd(_, _)
ScanEnd(file, i) ==
    IF i > Len(file) THEN Len(file)
    ELSE IF StartsWithHash(file[i]) THEN ScanEnd(file, i + 1) ELSE i

\* the test of cadd_indels is missing
any_cadd_file_short(o) ==
    o.cadd_file \/ o.cadd_1000g \/ o.cadd_exac \/ o.cadd_esp

any_cadd_file(o) ==
    o.cadd_file \/ o.cadd_1000g \/ o.cadd_exac \/ o.cadd_esp \/ o.cadd_indels

AddIf(cond, h, key) == IF cond THEN add_metadata(h, key) ELSE h

\* the add_metadata calls of annotate, in the order of the code
SetupHead(h, o) ==
    LET h1 == AddIf(o.annotate_regions, h, "Annotation")
        h2 == AddIf(o.annotate_regions, h1, "Exonic")
        h3 == AddIf(o.exac, h2, "ExACAF")
        h4 == AddIf(o.thousand_g, h3, "1000GAF")
        h5 == AddIf(any_cadd_file(o), h4, "CADD")
        h6 == AddIf(any_cadd_file(o) /\ o.cadd_raw, h5, "CADD_raw")
    IN  h6

\* num_annotators on a machine with cpus processors
NumAnnotatorsOn(processes, cadd, cpus) ==
    IF cadd /\ processes = Min(4, cpus)
    THEN Min(8, cpus)
    ELSE processes

NumAnnotators(processes, o) == NumAnnotatorsOn(processes, any_cadd_file(o), cpu_count)

\* print_headers: one metadata line per declaration, then the column names
HeaderLines(h) ==
    [i \in 1..Len(h.meta) |-> <<"##", h.meta[i]>>]
        \o (IF h.header = None THEN <<>> ELSE <<h.header>>)

\* ------------------------------------------------------- pure helpers
\* the VariantAnnotator's annotation of one line: INFO gets the new keys
annotate_line(line) == [line EXCEPT ![5] = "ANN"]

\* the sort key the VariantPrinter gives a line in mode 'chromosome' / 'rank'
Priority(line, mode) ==
    IF mode = "chromosome" THEN line[1] ELSE line[4]

\* vcf_tools.print_variant_for_sorting: priority TAB line
print_variant_for_sorting(variant_line, priority) == <<priority>> \o variant_line

\* vcf_tools.print_variant: the line that is written, None when none is
print_variant(variant_line, mode) ==
    IF StartsWithHash(variant_line) THEN None
    ELSE IF mode = "modified" THEN Tail(variant_line) ELSE variant_line

\* sort_variants: stable sort of the lines of the temp file
Before(a, b, mode) ==
    IF mode = "chromosome"
    THEN IntOf(a[1]) < IntOf(b[1])
         \/ (IntOf(a[1]) = IntOf(b[1]) /\ IntOf(a[3]) < IntOf(b[3]))
    ELSE IntOf(a[1]) > IntOf(b[1])

RECURSIVE Insert(_, _, _)
Insert(sorted, x, mode) ==
    IF sorted = <<>> THEN <<x>>
    ELSE IF Before(x, sorted[Len(sorted)], mode)
         THEN Append(Insert(SubSeq(sorted, 1, Len(sorted) - 1), x, mode), sorted[Len(sorted)])
         ELSE Append(sorted, x)

RECURSIVE sort_variants(_, _)
sort_variants(lines, mode) ==
    IF lines = <<>> THEN <<>>
    ELSE Insert(sort_variants(SubSeq(lines, 1, Len(lines) - 1), mode), lines[Len(lines)], mode)

\* -------------------------------------------------------------- state
VARIABLES
    variant_file,    \* the lines of the input
    options,         \* the command line
    processes,       \* --processes
    pc,              \* where the driver is in annotate
    filepos,         \* lines of variant_file the second loop has read
    head,            \* the HeaderParser
    num_annotators,
    variant_queue,   \* JoinableQueue(maxsize): the jobs not yet taken
    unfinished,      \* its count of tasks without task_done
    results,         \* Manager().Queue()
    wpc,             \* where each VariantAnnotator is
    wjob,            \* the job each VariantAnnotator holds
    ppc,             \* where the VariantPrinter is
    temp_file,       \* the lines of the temp file
    temp_exists,     \* the temp file is on disk
    temp_created,    \* temp files this run has created
    sort_mode,       \* the mode handed to VariantPrinter and sort_variants
    readpos,         \* lines of the temp file the last loop has read
    sink,            \* what was written to outfile
    console,         \* what was printed to stdout
    failures,        \* annotation calls that raised
    pushed,          \* every job put on variant_queue, in order
    popped,          \* every job taken from variant_queue, in order
    arg,             \* the arguments of a function that is checked on its own
    ret              \* what that function returned or wrote

vars == <<variant_file, options, processes, pc, filepos, head, num_annotators,
          variant_queue, unfinished, results, wpc, wjob, ppc, temp_file,
          temp_exists, temp_created, sort_mode, readpos, sink, console,
          failures, pushed, popped, arg, ret>>

inputVars == <<variant_file, options, processes, sort_mode, arg, ret>>
queueVars == <<variant_queue, unfinished, pushed, popped>>
workerVars == <<wpc, wjob, failures>>
outVars == <<sink, console, readpos>>
tempVars == <<temp_file, temp_exists, temp_created>>

Workers == 1..MaxWorkers
Started == 1..num_annotators

InputFiles ==
    {<<MetaLine, HeaderLine>> \o d : d \in {s \in SeqsUpTo(InputRecords, MaxRecords) : Distinct(s)}}

Init ==
    /\ variant_file \in InputFiles
    /\ options \in CommandLines
    /\ processes \in 1..MaxWorkers
    /\ sort_mode = "chromosome"
    /\ pc = "parse_header"
    /\ filepos = 0
    /\ head = EmptyHead
    /\ num_annotators = 0
    /\ variant_queue = <<>>
    /\ unfinished = 0
    /\ results = <<>>
    /\ wpc = [w \in Workers |-> "new"]
    /\ wjob = [w \in Workers |-> None]
    /\ ppc = "new"
    /\ temp_file = <<>>
    /\ temp_exists = FALSE
    /\ temp_created = 0
    /\ readpos = 0
    /\ sink = <<>>
    /\ console = <<>>
    /\ failures = 0
    /\ pushed = <<>>
    /\ popped = <<>>
    /\ arg = <<>>
    /\ ret = <<>>

\* ------------------------------------------------------------- driver
\* the second loop starts where the header scan stopped: seek(0) is missing
DriverSetup_noseek ==
    /\ pc = "parse_header"
    /\ head' = SetupHead(ScanHeader(variant_file, 1, EmptyHead), options)
    /\ filepos' = ScanEnd(variant_file, 1)
    /\ pc' = "start"
    /\ UNCHANGED <<inputVars, num_annotators, queueVars, results, workerVars, ppc,
                   tempVars, outVars>>

\* the header scan, the add_metadata calls and variant_file.seek(0)
DriverSetup ==
    /\ pc = "parse_header"
    /\ head' = SetupHead(ScanHeader(variant_file, 1, EmptyHead), options)
    /\ filepos' = 0
    /\ pc' = "start"
    /\ UNCHANGED <<inputVars, num_annotators, queueVars, results, workerVars, ppc,
                   tempVars, outVars>>

\* an add_metadata call placed after worker.start()
DriverStart_latehead ==
    /\ pc = "start"
    /\ num_annotators' = NumAnnotators(processes, options)
    /\ variant_queue' = <<>>
    /\ unfinished' = 0
    /\ results' = <<>>
    /\ temp_file' = <<>>
    /\ temp_exists' = TRUE
    /\ temp_created' = temp_created + 1
    /\ wpc' = [w \in Workers |->
                 IF w <= NumAnnotators(processes, options) THEN "get" ELSE "new"]
    /\ ppc' = "run"
    /\ pc' = "parse"
    /\ head' = add_metadata(head, "Late")
    /\ UNCHANGED <<inputVars, filepos, wjob, failures, pushed, popped, outVars>>

\* the queues, num_annotators, the temp file, worker.start(), var_printer.start()
DriverStart ==
    /\ pc = "start"
    /\ num_annotators' = NumAnnotators(processes, options)
    /\ variant_queue' = <<>>
    /\ unfinished' = 0
    /\ results' = <<>>
    /\ temp_file' = <<>>
    /\ temp_exists' = TRUE
    /\ temp_created' = temp_created + 1
    /\ wpc' = [w \in Workers |->
                 IF w <= NumAnnotators(processes, options) THEN "get" ELSE "new"]
    /\ ppc' = "run"
    /\ pc' = "parse"
    /\ UNCHANGED <<inputVars, filepos, head, wjob, failures, pushed, popped, outVars>>

\* JoinableQueue() without maxsize: put never blocks
QueuePut_unbounded(x) ==
    /\ variant_queue' = Append(variant_queue, x)
    /\ unfinished' = unfinished + 1
    /\ pushed' = Append(pushed, x)
    /\ UNCHANGED popped

\* variant_queue.put(x): blocks while the queue is full
QueuePut(x) ==
    /\ Len(variant_queue) < QueueSize
    /\ variant_queue' = Append(variant_queue, x)
    /\ unfinished' = unfinished + 1
    /\ pushed' = Append(pushed, x)
    /\ UNCHANGED popped

\* for line in variant_file: if not line.startswith('#'): variant_queue.put(line)
DriverParse ==
    /\ pc = "parse"
    /\ IF filepos = Len(variant_file)
       THEN /\ pc' = "stop_signs"
            /\ UNCHANGED <<filepos, queueVars>>
       ELSE /\ pc' = pc
            /\ IF StartsWithHash(variant_file[filepos + 1])
               THEN UNCHANGED queueVars
               ELSE QueuePut(variant_file[filepos + 1])
            /\ filepos' = filepos + 1
    /\ UNCHANGED <<inputVars, head, num_annotators, results, workerVars, ppc,
                   tempVars, outVars>>

SentinelsIn(q) == Len(SelectSeq(q, LAMBDA j : j = None))

\* range(num_annotators - 1): one stop sign too few
DriverStopSigns_short ==
    /\ pc = "stop_signs"
    /\ IF SentinelsIn(pushed) >= num_annotators - 1
       THEN /\ pc' = "join_queue"
            /\ UNCHANGED queueVars
       ELSE /\ pc' = pc
            /\ QueuePut(None)
    /\ UNCHANGED <<inputVars, filepos, head, num_annotators, results, workerVars,
                   ppc, tempVars, outVars>>

\* for i in range(num_annotators): variant_queue.put(None)
DriverStopSigns ==
    /\ pc = "stop_signs"
    /\ IF SentinelsIn(pushed) = num_annotators
       THEN /\ pc' = "join_queue"
            /\ UNCHANGED queueVars
       ELSE /\ pc' = pc
            /\ QueuePut(None)
    /\ UNCHANGED <<inputVars, filepos, head, num_annotators, results, workerVars,
                   ppc, tempVars, outVars>>

\* variant_queue.join() left out: the end marker may overtake results
DriverJoinQueue_nojoin ==
    /\ pc = "join_queue"
    /\ pc' = "put_end"
    /\ UNCHANGED <<inputVars, filepos, head, num_annotators, queueVars, results,
                   workerVars, ppc, tempVars, outVars>>

\* variant_queue.join()
DriverJoinQueue ==
    /\ pc = "join_queue"
    /\ unfinished = 0
    /\ pc' = "put_end"
    /\ UNCHANGED <<inputVars, filepos, head, num_annotators, queueVars, results,
                   workerVars, ppc, tempVars, outVars>>

\* results.put(None) left out: the collector never sees the end marker
DriverPutEnd_skip ==
    /\ pc = "put_end"
    /\ results' = results
    /\ pc' = "join_printer"
    /\ UNCHANGED <<inputVars, filepos, head, num_annotators, queueVars,
                   workerVars, ppc, tempVars, outVars>>

\* results.put(None)
DriverPutEnd ==
    /\ pc = "put_end"
    /\ results' = Append(results, None)
    /\ pc' = "join_printer"
    /\ UNCHANGED <<inputVars, filepos, head, num_annotators, queueVars,
                   workerVars, ppc, tempVars, outVars>>

\* var_printer.join() left out: the driver goes on to the sort at once
DriverJoinPrinter_nojoin ==
    /\ pc = "join_printer"
    /\ pc' = "sort"
    /\ UNCHANGED <<inputVars, filepos, head, num_annotators, queueVars, results,
                   workerVars, ppc, tempVars, outVars>>

\* var_printer.join()
DriverJoinPrinter ==
    /\ pc = "join_printer"
    /\ ppc = "done"
    /\ pc' = "sort"
    /\ UNCHANGED <<inputVars, filepos, head, num_annotators, queueVars, results,
                   workerVars, ppc, tempVars, outVars>>

\* the call of sort_variants left out
DriverSort_unsorted ==
    /\ pc = "sort"
    /\ temp_file' = temp_file
    /\ pc' = "print_headers"
    /\ UNCHANGED <<inputVars, filepos, head, num_annotators, queueVars, results,
                   workerVars, ppc, temp_exists, temp_created, outVars>>

\* sort_variants(temp_file.name, mode='chromosome')
DriverSort ==
    /\ pc = "sort"
    /\ temp_file' = sort_variants(temp_file, sort_mode)
    /\ pc' = "print_headers"
    /\ UNCHANGED <<inputVars, filepos, head, num_annotators, queueVars, results,
                   workerVars, ppc, temp_exists, temp_created, outVars>>

\* what a print to outfile or stdout does to them
Emit(lines) ==
    /\ sink' = IF options.outfile THEN sink \o lines ELSE sink
    /\ console' = IF ~options.outfile /\ ~options.silent THEN console \o lines ELSE console

\* the call of print_headers left out
DriverPrintHeaders_skip ==
    /\ pc = "print_headers"
    /\ pc' = "print_variants"
    /\ UNCHANGED <<inputVars, filepos, head, num_annotators, queueVars, results,
                   workerVars, ppc, tempVars, outVars>>

\* print_headers(head, outfile, silent)
DriverPrintHeaders ==
    /\ pc = "print_headers"
    /\ Emit(HeaderLines(head))
    /\ pc' = "print_variants"
    /\ UNCHANGED <<inputVars, filepos, head, num_annotators, queueVars, results,
                   workerVars, ppc, tempVars, readpos>>

\* for line in f: print_variant(line, outfile, mode='modified', silent)
DriverPrintVariant ==
    /\ pc = "print_variants"
    /\ IF readpos = Len(temp_file)
       THEN /\ pc' = "remove"
            /\ UNCHANGED outVars
       ELSE /\ pc' = pc
            /\ readpos' = readpos + 1
            /\ LET out == print_variant(temp_file[readpos + 1], "modified")
               IN  IF StartsWithHash(temp_file[readpos + 1])
                   THEN UNCHANGED <<sink, console>>
                   ELSE Emit(<<out>>)
    /\ UNCHANGED <<inputVars, filepos, head, num_annotators, queueVars, results,
                   workerVars, ppc, tempVars>>

\* os.remove(temp_file.name)
DriverRemove ==
    /\ pc = "remove"
    /\ temp_exists' = FALSE
    /\ pc' = "done"
    /\ UNCHANGED <<inputVars, filepos, head, num_annotators, queueVars, results,
                   workerVars, ppc, temp_file, temp_created, outVars>>

\* an I/O error raised in the driver while it reads the input, sorts or
\* prints: annotate has no handler, the exception ends the run
DriverRaise ==
    /\ pc \in {"parse", "sort", "print_headers", "print_variants"}
    /\ pc' = "failed"
    /\ UNCHANGED <<inputVars, filepos, head, num_annotators, queueVars, results,
                   workerVars, ppc, tempVars, outVars>>

\* ------------------------------------------------- VariantAnnotator (N)
\* variant = self.task_queue.get()
WorkerGet(w) ==
    /\ wpc[w] = "get"
    /\ variant_queue # <<>>
    /\ wjob' = [wjob EXCEPT ![w] = Head(variant_queue)]
    /\ variant_queue' = Tail(variant_queue)
    /\ popped' = Append(popped, Head(variant_queue))
    /\ wpc' = [wpc EXCEPT ![w] = IF Head(variant_queue) = None THEN "stop" ELSE "work"]
    /\ UNCHANGED <<inputVars, pc, filepos, head, num_annotators, unfinished, pushed,
                   results, failures, ppc, tempVars, outVars>>

\* what a worker does with the line it holds; raised: the annotation call raised
WorkerResult(line, raised) == IF raised THEN line ELSE annotate_line(line)

\* the annotated line goes to the results queue, then task_done()
WorkerAnnotate(w) ==
    /\ wpc[w] = "work"
    /\ \E raised \in BOOLEAN :
          /\ raised => failures < MaxFailures
          /\ failures' = IF raised THEN failures + 1 ELSE failures
          /\ results' = Append(results, WorkerResult(wjob[w], raised))
    /\ unfinished' = unfinished - 1
    /\ wjob' = [wjob EXCEPT ![w] = None]
    /\ wpc' = [wpc EXCEPT ![w] = "get"]
    /\ UNCHANGED <<inputVars, pc, filepos, head, num_annotators, variant_queue,
                   pushed, popped, ppc, tempVars, outVars>>

\* the sentinel: task_done() and leave the loop
WorkerStop(w) ==
    /\ wpc[w] = "stop"
    /\ unfinished' = unfinished - 1
    /\ wpc' = [wpc EXCEPT ![w] = "done"]
    /\ UNCHANGED <<inputVars, pc, filepos, head, num_annotators, variant_queue,
                   pushed, popped, results, wjob, failures, ppc, tempVars, outVars>>

\* ------------------------------------------------------ VariantPrinter
\* one result is taken and written to the temp file; None closes the file
PrinterWrite ==
    /\ ppc = "run"
    /\ results # <<>>
    /\ results' = Tail(results)
    /\ IF Head(results) = None
       THEN /\ ppc' = "done"
            /\ UNCHANGED temp_file
       ELSE /\ ppc' = ppc
            /\ temp_file' = Append(temp_file,
                   print_variant_for_sorting(Head(results),
                                             Priority(Head(results), sort_mode)))
    /\ UNCHANGED <<inputVars, pc, filepos, head, num_annotators, queueVars,
                   workerVars, temp_exists, temp_created, outVars>>

\* ---------------------------------------------------------------- spec
Next ==
    \/ DriverSetup
    \/ DriverStart
    \/ DriverParse
    \/ DriverStopSigns
    \/ DriverJoinQueue
    \/ DriverPutEnd
    \/ DriverJoinPrinter
    \/ DriverSort
    \/ DriverPrintHeaders
    \/ DriverPrintVariant
    \/ DriverRemove
    \/ DriverRaise
    \/ \E w \in Workers : WorkerGet(w)
    \/ \E w \in Workers : WorkerAnnotate(w)
    \/ \E w \in Workers : WorkerStop(w)
    \/ PrinterWrite

Spec == Init /\ [][Next]_vars

\* ------------------------------------------------------------ notions
M == Len(DataLines(variant_file))

\* where the run writes: outfile when one is given, stdout without one
FinalOutput == IF options.outfile THEN sink ELSE console

OutRecords(out) == SelectSeq(out, LAMBDA l : ~StartsWithHash(l))

Id(line) == line[3]

Count(seq, id) == Cardinality({i \in 1..Len(seq) : Id(seq[i]) = id})

\* every data line of the input is in out exactly once, and nothing else is
Complete(out) ==
    /\ Len(OutRecords(out)) = M
    /\ \A i \in 1..M : Count(OutRecords(out), Id(DataLines(variant_file)[i])) = 1

Printing == options.outfile \/ ~options.silent

\* ------------------------------------------------- the sorter on its own
\* sort_variants and the printing loop on any temp file the printer can
\* have left, in both modes of the sorter
SortModes == {"chromosome", "rank"}

Orders(seq) ==
    {s \in SeqsUpTo(SeqRange(seq), Len(seq)) : Len(s) = Len(seq) /\ Distinct(s)}

SpillOf(lines, mode) ==
    [i \in 1..Len(lines) |->
        print_variant_for_sorting(annotate_line(lines[i]), Priority(lines[i], mode))]

SortInit ==
    /\ variant_file \in
          {<<MetaLine, HeaderLine>> \o d :
              d \in {s \in SeqsUpTo(Records, MaxSortLines) : Distinct(s)}}
    /\ options \in CommandLines
    /\ processes = 1
    /\ sort_mode \in SortModes
    /\ pc = "sort"
    /\ filepos = Len(variant_file)
    /\ head = SetupHead(ScanHeader(variant_file, 1, EmptyHead), options)
    /\ num_annotators = NumAnnotators(processes, options)
    /\ variant_queue = <<>>
    /\ unfinished = 0
    /\ results = <<>>
    /\ wpc = [w \in Workers |-> IF w <= num_annotators THEN "done" ELSE "new"]
    /\ wjob = [w \in Workers |-> None]
    /\ ppc = "done"
    /\ temp_file \in Orders(SpillOf(DataLines(variant_file), sort_mode))
    /\ temp_exists = TRUE
    /\ temp_created = 1
    /\ readpos = 0
    /\ sink = <<>>
    /\ console = <<>>
    /\ failures = 0
    /\ pushed = DataLines(variant_file) \o [i \in 1..num_annotators |-> None]
    /\ popped = pushed
    /\ arg = <<>>
    /\ ret = <<>>

SortNext ==
    \/ DriverSort
    \/ DriverPrintHeaders
    \/ DriverPrintVariant
    \/ DriverRemove
    \/ DriverRaise

SortSpec == SortInit /\ [][SortNext]_vars

\* ---------------------------------------------------------------- C1
\* C1 as stated: when the run is done the final output holds exactly the M
\* input records, each exactly once, for every N and every interleaving.
C1_CompleteAlways == pc = "done" => Complete(FinalOutput)

\* C1 amended: the same, whenever the run prints at all (an outfile is
\* given or silent is off); with silent on and no outfile nothing is
\* written and the final output holds no record.
C1_Complete ==
    pc = "done" =>
        IF Printing THEN Complete(FinalOutput) ELSE FinalOutput = <<>>

C1_Witness ==
    /\ pc = "done"
    /\ M = MaxRecords
    /\ num_annotators = MaxWorkers
    /\ Printing
    /\ Len(OutRecords(FinalOutput)) = M

\* ---------------------------------------------------------------- C2
\* the driver is at or past sort_variants
SortPhase == pc \in {"sort", "print_headers", "print_variants", "remove", "done"}

\* C2: whenever the driver is in the sort phase every started worker has
\* taken its stop sign and stopped, the work queue is empty with no
\* unfinished job, and the printer has taken the end marker, stopped and
\* closed the temp file: the sorter never reads a file the printer writes.
C2_SortAfterAnnotation ==
    SortPhase =>
        /\ \A w \in Started : wpc[w] = "done"
        /\ variant_queue = <<>>
        /\ unfinished = 0
        /\ results = <<>>
        /\ ppc = "done"

C2_Witness ==
    /\ pc = "print_headers"
    /\ num_annotators = MaxWorkers
    /\ Len(temp_file) = MaxRecords
    /\ ppc = "done"

\* ---------------------------------------------------------------- C3
StopSignsPushed == pc \in {"join_queue", "put_end", "join_printer"} \/ SortPhase

\* C3: the driver pushes exactly num_annotators stop signs, all of them
\* after the last data line; num_annotators workers were started; a worker
\* stops only by taking a stop sign and takes one only; no data line is
\* left in the queue when every worker has stopped.
C3_SentinelProtocol ==
    /\ SentinelsIn(pushed) <= num_annotators
    /\ StopSignsPushed => SentinelsIn(pushed) = num_annotators
    /\ SentinelsIn(pushed) > 0 => filepos = Len(variant_file)
    /\ \A i, j \in 1..Len(pushed) : (i < j /\ pushed[i] = None) => pushed[j] = None
    /\ pc \notin {"parse_header", "start"} => {w \in Workers : wpc[w] # "new"} = Started
    /\ SentinelsIn(popped) = Cardinality({w \in Workers : wpc[w] \in {"stop", "done"}})
    /\ (\A w \in Started : wpc[w] \in {"stop", "done"}) =>
           (pc \in {"parse_header", "start"} \/ variant_queue = <<>>)

C3_Witness ==
    /\ pc = "join_queue"
    /\ num_annotators = MaxWorkers
    /\ M = MaxRecords
    /\ \A w \in Started : wpc[w] = "done"

\* ---------------------------------------------------------------- C4
DriverBlocked ==
    /\ Len(variant_queue) = QueueSize
    /\ \/ pc = "parse" /\ filepos < Len(variant_file)
       \/ pc = "stop_signs" /\ SentinelsIn(pushed) < num_annotators

KeyLeq(a, b, mode) ==
    IF mode = "chromosome"
    THEN IntOf(a[1]) < IntOf(b[1])
         \/ (IntOf(a[1]) = IntOf(b[1]) /\ IntOf(a[2]) <= IntOf(b[2]))
    ELSE IntOf(a[4]) >= IntOf(b[4])

SortedOut(out, mode) ==
    \A i \in 1..(Len(out) - 1) : KeyLeq(out[i], out[i + 1], mode)

\* C5: whatever order the results were written to the temp file in, the
\* records emitted are in the order of the mode: rank score descending in
\* mode rank, (chromosome, position) ascending in mode chromosome.
C5_SortedOutput ==
    /\ SortedOut(OutRecords(sink), sort_mode)
    /\ SortedOut(OutRecords(console), sort_mode)

C5_Witness ==
    /\ pc = "done"
    /\ sort_mode = "rank"
    /\ Len(OutRecords(FinalOutput)) = MaxSortLines
    /\ \E i \in 1..MaxSortLines :
          Id(OutRecords(FinalOutput)[i]) # Id(DataLines(variant_file)[i])
    /\ \E i \in 1..(MaxSortLines - 1) :
          IntOf(OutRecords(FinalOutput)[i][4]) > IntOf(OutRecords(FinalOutput)[i + 1][4])

\* ---------------------------------------------------------------- C6
SameKey(a, b) == a[1] = b[1] /\ a[2] = b[2]

Position(out, id) == CHOOSE k \in 1..Len(out) : Id(out[k]) = id

\* C6 as stated: two input records with equal sort keys are emitted in
\* their input order, for every N and every interleaving.
C6_Stable ==
    (pc = "done" /\ Printing) =>
        \A i, j \in 1..M :
            LET a == DataLines(variant_file)[i]
                b == DataLines(variant_file)[j]
                out == OutRecords(FinalOutput)
            IN  (i < j /\ SameKey(a, b)) => Position(out, Id(a)) < Position(out, Id(b))

\* ---------------------------------------------------------------- C7
SpillId(line) == line[4]

Annotated(line) == line[6] = "ANN"

\* C7: a worker whose annotation call raises passes the line on as it is,
\* stays in its loop and takes the next job; when the driver reaches the
\* sort every worker has stopped on a stop sign and the temp file holds
\* every input record once, all but the failed ones annotated.
C7_WorkerFailure ==
    /\ [][failures' > failures =>
             \E w \in Started :
                 /\ wpc[w] = "work" /\ wpc'[w] = "get"
                 /\ results' = Append(results, wjob[w])]_vars
    /\ []((failures > 0 /\ SortPhase) =>
             /\ \A w \in Started : wpc[w] = "done"
             /\ Len(temp_file) = M
             /\ \A i \in 1..M :
                    Cardinality({k \in 1..Len(temp_file) :
                        SpillId(temp_file[k]) = Id(DataLines(variant_file)[i])}) = 1
             /\ Cardinality({k \in 1..Len(temp_file) : Annotated(temp_file[k])})
                    = M - failures)

C7_Witness ==
    /\ pc = "sort"
    /\ failures = MaxFailures
    /\ M = MaxRecords
    /\ num_annotators = MaxWorkers

\* ---------------------------------------------------------------- C8
Terminal == pc \in {"done", "failed"}

\* C8 as stated: a run creates one temp file, and when the run has ended,
\* in success or in a failure, the temp file has been removed.
C8_SpillRemoved == Terminal => (temp_created = 1 /\ ~temp_exists)

\* ---------------------------------------------------------------- C9
\* C9 as stated: a run that fails leaves nothing in outfile, neither the
\* header nor a part of the records.
C9_AllOrNothing == pc = "failed" => sink = <<>>

\* --------------------------------------------------------------- C10
HeaderFirst(out) ==
    /\ \A i, j \in 1..Len(out) :
           (i < j /\ ~StartsWithHash(out[i])) => ~StartsWithHash(out[j])
    /\ OutRecords(out) # <<>> =>
           /\ Len(out) >= Len(HeaderLines(head))
           /\ SubSeq(out, 1, Len(HeaderLines(head))) = HeaderLines(head)

\* C10: the line of every declaration of the header, the ones added in this
\* run among them, is written before the first record, and no header line
\* is written after a record.
C10_HeaderFirst ==
    /\ HeaderFirst(sink)
    /\ HeaderFirst(console)
    /\ pc \notin {"parse_header", "start"} =>
           head = SetupHead(ScanHeader(variant_file, 1, EmptyHead), options)

C10_Witness ==
    /\ pc = "done"
    /\ options.cadd_file
    /\ "CADD_raw" \in SeqRange(head.meta)
    /\ Len(OutRecords(console)) = MaxRecords

\* ======================================================================
\* The functions of print_variants.py on text: a text is a sequence of
\* characters, "\t" separates fields and "\n" ends a line.
\* ======================================================================
MaxFields == 2       \* fields of a line of text

Whitespace == {" ", "\t", "\n"}

\* str.rstrip()
RECURSIVE RStrip(_)
RStrip(t) ==
    IF t # <<>> /\ t[Len(t)] \in Whitespace THEN RStrip(SubSeq(t, 1, Len(t) - 1)) ELSE t

\* str.split(sep): always at least one field
RECURSIVE Split(_, _)
Split(t, sep) ==
    IF \A i \in 1..Len(t) : t[i] # sep THEN <<t>>
    ELSE LET k == CHOOSE i \in 1..Len(t) :
                      t[i] = sep /\ \A j \in 1..(i - 1) : t[j] # sep
         IN  <<SubSeq(t, 1, k - 1)>> \o Split(SubSeq(t, k + 1, Len(t)), sep)

\* sep.join(fields)
RECURSIVE Join(_, _)
Join(fields, sep) ==
    IF fields = <<>> THEN <<>>
    ELSE IF Len(fields) = 1 THEN fields[1]
    ELSE fields[1] \o <<sep>> \o Join(Tail(fields), sep)

\* for line in f: the lines of a text, each with its "\n"
RECURSIVE FileLines(_)
FileLines(t) ==
    IF t = <<>> THEN <<>>
    ELSE IF \A i \in 1..Len(t) : t[i] # "\n" THEN <<t>>
    ELSE LET k == CHOOSE i \in 1..Len(t) :
                      t[i] = "\n" /\ \A j \in 1..(i - 1) : t[j] # "\n"
         IN  <<SubSeq(t, 1, k)>> \o FileLines(SubSeq(t, k + 1, Len(t)))

TextStartsWithHash(t) == t # <<>> /\ t[1] = "#"

\* what print_variant and print_variants hand to write or print for one
\* line, without the "\n"; nothing for a line that starts with '#'
PrintedFields(line, mode) ==
    LET splitted_line == Split(RStrip(line), "\t")
    IN  IF mode = "modified" THEN Tail(splitted_line) ELSE splitted_line

\* silent stops the write to outfile as well
WriteOrPrint_silent(text, outfile, silent) ==
    [sink |-> IF outfile /\ ~silent THEN text ELSE <<>>,
     console |-> IF ~outfile /\ ~silent THEN text ELSE <<>>]

\* if outfile: outfile.write(...) else: if not silent: print(...)
WriteOrPrint(text, outfile, silent) ==
    [sink |-> IF outfile THEN text ELSE <<>>,
     console |-> IF ~outfile /\ ~silent THEN text ELSE <<>>]

\* vcf_tools.print_variant on text
print_variant_text(variant_line, outfile, mode, silent) ==
    IF TextStartsWithHash(variant_line) THEN WriteOrPrint(<<>>, outfile, silent)
    ELSE WriteOrPrint(Join(PrintedFields(variant_line, mode), "\t") \o <<"\n">>,
                      outfile, silent)

\* utils.print_variants on the text of a file
RECURSIVE print_variants_text(_, _, _, _)
print_variants_text(lines, outfile, mode, silent) ==
    IF lines = <<>> THEN WriteOrPrint(<<>>, outfile, silent)
    ELSE LET first == print_variant_text(lines[1], outfile, mode, silent)
             rest == print_variants_text(Tail(lines), outfile, mode, silent)
         IN  [sink |-> first.sink \o rest.sink, console |-> first.console \o rest.console]

\* vcf_tools.print_variant_for_sorting on text: what it writes
print_variant_for_sorting_text(variant_line, priority) ==
    priority \o <<"\t">> \o Join(Split(variant_line, "\t"), "\t")

\* the pipeline does not run while a function is checked on its own
pipeVars == <<variant_file, options, processes, pc, filepos, head, num_annotators,
              variant_queue, unfinished, results, wpc, wjob, ppc, temp_file,
              temp_exists, temp_created, sort_mode, readpos, sink, console,
              failures, pushed, popped>>

PipelineIdle ==
    /\ variant_file = <<>>
    /\ options = NoOptions
    /\ processes = 1
    /\ sort_mode = "chromosome"
    /\ pc = "idle"
    /\ filepos = 0
    /\ head = EmptyHead
    /\ num_annotators = 0
    /\ variant_queue = <<>>
    /\ unfinished = 0
    /\ results = <<>>
    /\ wpc = [w \in Workers |-> "new"]
    /\ wjob = [w \in Workers |-> None]
    /\ ppc = "new"
    /\ temp_file = <<>>
    /\ temp_exists = FALSE
    /\ temp_created = 0
    /\ readpos = 0
    /\ sink = <<>>
    /\ console = <<>>
    /\ failures = 0
    /\ pushed = <<>>
    /\ popped = <<>>

\* ------------------------------------------------------ the print calls
FieldTexts == {<<>>, <<"a">>, <<"b", " ">>, <<"#">>}

FieldSeqs == SeqsUpTo(FieldTexts, MaxFields) \ {<<>>}

\* one line of text, with or without its "\n"
LineTexts == {Join(f, "\t") \o nl : f \in FieldSeqs, nl \in {<<>>, <<"\n">>}}

\* the texts of the files print_variants is tried on: one or two lines
ShortLines ==
    {Join(f, "\t") \o <<"\n">> : f \in SeqsUpTo({<<"a">>, <<"#">>}, MaxFields) \ {<<>>}}

FileTexts == ShortLines \cup {a \o b : a \in ShortLines, b \in ShortLines}

PrintModes == {"vcf", "modified"}

\* the priorities a line is written to the temp file with
PriorityTexts == {<<"1">>, <<"2", "5">>}

NotCalled == [done |-> FALSE, sink |-> <<>>, console |-> <<>>]

Returned(w) == [done |-> TRUE, sink |-> w.sink, console |-> w.console]

PrintInit ==
    /\ PipelineIdle
    /\ arg \in [fn : {"print_variant"}, text : LineTexts, mode : PrintModes,
                outfile : BOOLEAN, silent : BOOLEAN]
           \cup [fn : {"print_variants"}, text : FileTexts, mode : PrintModes,
                 outfile : BOOLEAN, silent : BOOLEAN]
    /\ ret = NotCalled

\* print_variant(variant_line, outfile, mode, silent)
CallPrintVariant ==
    /\ arg.fn = "print_variant"
    /\ ~ret.done
    /\ ret' = Returned(print_variant_text(arg.text, arg.outfile, arg.mode, arg.silent))
    /\ UNCHANGED <<pipeVars, arg>>

\* print_variants(variant_file, outfile, mode, silent)
CallPrintVariants ==
    /\ arg.fn = "print_variants"
    /\ ~ret.done
    /\ ret' = Returned(print_variants_text(FileLines(arg.text), arg.outfile, arg.mode,
                                           arg.silent))
    /\ UNCHANGED <<pipeVars, arg>>

\* mode 'modified': print_variant_for_sorting writes the line to the temp
\* file, the temp file is read line by line and print_variant prints each
\* line; mode 'vcf': print_variant prints the line as it is
CallRoundTrip ==
    /\ arg.fn = "round_trip"
    /\ ~ret.done
    /\ ret' = Returned(
           IF arg.mode = "modified"
           THEN print_variants_text(
                    FileLines(print_variant_for_sorting_text(arg.text, arg.priority)),
                    arg.outfile, arg.mode, arg.silent)
           ELSE print_variant_text(arg.text, arg.outfile, arg.mode, arg.silent))
    /\ UNCHANGED <<pipeVars, arg>>

PrintNext == CallPrintVariant \/ CallPrintVariants

RoundInit ==
    /\ PipelineIdle
    /\ arg \in [fn : {"round_trip"}, text : LineTexts, mode : PrintModes,
                outfile : BOOLEAN, silent : BOOLEAN, priority : PriorityTexts]
    /\ ret = NotCalled

RoundNext == CallRoundTrip

RoundSpec == RoundInit /\ [][RoundNext]_vars

PrintSpec == PrintInit /\ [][PrintNext]_vars

\* --------------------------------------------------------------- C11
\* the lines of the text handed to the call that do not start with '#'
RecordLines(a) ==
    SelectSeq(IF a.fn = "print_variant" THEN <<a.text>> ELSE FileLines(a.text),
              LAMBDA l : ~TextStartsWithHash(l))

NewLines(t) == Len(SelectSeq(t, LAMBDA c : c = "\n"))

\* C11: with an outfile every record line is written to it, one line each,
\* whatever silent is, and nothing goes to the console; without an outfile
\* nothing is written, and every record line is printed to the console
\* when silent is off and none when it is on.
C11_SilentAndSink ==
    ret.done =>
        /\ arg.outfile =>
               /\ NewLines(ret.sink) = Len(RecordLines(arg))
               /\ ret.console = <<>>
        /\ ~arg.outfile =>
               /\ ret.sink = <<>>
               /\ NewLines(ret.console) = IF arg.silent THEN 0 ELSE Len(RecordLines(arg))

C11_Witness ==
    /\ ret.done
    /\ arg.fn = "print_variants"
    /\ arg.outfile /\ arg.silent
    /\ Len(RecordLines(arg)) = 2
    /\ NewLines(ret.sink) = 2

\* ------------------------------------------------- the header set-up alone
\* every combination of the annotation options, on an input whose header
\* has no CADD declaration and on one that has it already
CaddOptions == {"cadd_file", "cadd_1000g", "cadd_exac", "cadd_esp", "cadd_indels"}

AllCommandLines ==
    {o \in [DOMAIN NoOptions -> BOOLEAN] : ~o.outfile /\ ~o.silent}

HeaderInputs ==
    { <<MetaLine, HeaderLine, RecA>>,
      <<MetaLine, <<"##", "CADD">>, HeaderLine, RecA>> }

HeaderInit ==
    /\ variant_file \in HeaderInputs
    /\ options \in AllCommandLines
    /\ processes = 1
    /\ sort_mode = "chromosome"
    /\ pc = "parse_header"
    /\ filepos = 0
    /\ head = EmptyHead
    /\ num_annotators = 0
    /\ variant_queue = <<>>
    /\ unfinished = 0
    /\ results = <<>>
    /\ wpc = [w \in Workers |-> "new"]
    /\ wjob = [w \in Workers |-> None]
    /\ ppc = "new"
    /\ temp_file = <<>>
    /\ temp_exists = FALSE
    /\ temp_created = 0
    /\ readpos = 0
    /\ sink = <<>>
    /\ console = <<>>
    /\ failures = 0
    /\ pushed = <<>>
    /\ popped = <<>>
    /\ arg = <<>>
    /\ ret = <<>>

HeaderNext == DriverSetup

HeaderSpec == HeaderInit /\ [][HeaderNext]_vars

\* --------------------------------------------------------------- C12
Declared(key) == Cardinality({i \in 1..Len(head.meta) : head.meta[i] = key})

CaddSources == Cardinality({f \in CaddOptions : options[f]})

\* C12: after the add_metadata calls no key is declared twice; with one to
\* five CADD sources there is exactly one CADD declaration, and there is
\* one CADD_raw declaration when cadd_raw is asked for with them and none
\* otherwise.
C12_DeclaredOnce ==
    pc = "start" =>
        /\ \A i, j \in 1..Len(head.meta) : i # j => head.meta[i] # head.meta[j]
        /\ CaddSources >= 1 => Declared("CADD") = 1
        /\ Declared("CADD_raw") = IF CaddSources >= 1 /\ options.cadd_raw THEN 1 ELSE 0
        /\ Declared("Annotation") = IF options.annotate_regions THEN 1 ELSE 0
        /\ Declared("ExACAF") = IF options.exac THEN 1 ELSE 0
        /\ Declared("1000GAF") = IF options.thousand_g THEN 1 ELSE 0

C12_Witness ==
    /\ pc = "start"
    /\ CaddSources = 5
    /\ options.cadd_raw
    /\ Declared("CADD") = 1
    /\ Declared("CADD_raw") = 1

\* --------------------------------------------------------------- C13
\* the records of the temp file, without the priority column
SpilledRecords == {Tail(temp_file[k]) : k \in 1..Len(temp_file)}

ParallelPhaseBegun == ppc # "new" \/ \E w \in Workers : wpc[w] # "new"

\* C14: once the header scan and the add_metadata calls are over the
\* header never changes again, and no worker and no printer is started
\* before they are over: from the first start to print_headers the header
\* is the one the add_metadata calls left.
C14_HeaderFrozen ==
    /\ [][pc # "parse_header" => head' = head]_vars
    /\ [](ParallelPhaseBegun =>
             /\ pc # "parse_header"
             /\ head = SetupHead(ScanHeader(variant_file, 1, EmptyHead), options))

C14_Witness ==
    /\ pc = "print_variants"
    /\ options.cadd_file
    /\ "CADD" \in SeqRange(head.meta)
    /\ num_annotators = MaxWorkers
    /\ \A w \in Started : wpc[w] = "done"

\* ------------------------------------------- the choice of num_annotators
MaxCpus == 8         \* largest cpu_count()
MaxProcesses == 8    \* largest value given with --processes

\* the value of the option: the default of click when the flag is not used
ProcessesOption(a) == IF a.flag_used THEN a.supplied ELSE Min(4, a.cpus)

CountInit ==
    /\ PipelineIdle
    /\ arg \in [fn : {"num_annotators"}, cpus : 1..MaxCpus, flag_used : BOOLEAN,
                supplied : 1..MaxProcesses, cadd : BOOLEAN]
    /\ ret = [done |-> FALSE, n |-> 0]

\* num_annotators = processes; if any_cadd_file: ...
CallNumAnnotators ==
    /\ arg.fn = "num_annotators"
    /\ ~ret.done
    /\ ret' = [done |-> TRUE, n |-> NumAnnotatorsOn(ProcessesOption(arg), arg.cadd, arg.cpus)]
    /\ UNCHANGED <<pipeVars, arg>>

CountNext == CallNumAnnotators

CountSpec == CountInit /\ [][CountNext]_vars

\* --------------------------------------------------------------- C15
\* C15 as stated: a process count given with the flag is the number of
\* workers, for every value and every cpu_count; the number is raised to
\* min(8, cpu_count) only with a CADD source and the flag unused.
C15_FlagOverrides ==
    ret.done =>
        /\ arg.flag_used => ret.n = arg.supplied
        /\ ret.n # ProcessesOption(arg) => (arg.cadd /\ ~arg.flag_used)

\* --------------------------------------------------------------- C16
\* the record of a line of text: the line without its "\n"
RecordOf(t) == IF t # <<>> /\ t[Len(t)] = "\n" THEN SubSeq(t, 1, Len(t) - 1) ELSE t

\* C16 as stated: a record written with print_variant_for_sorting and
\* printed with print_variant in mode 'modified', or printed in mode 'vcf',
\* comes out as one line with the fields of the record, all of them, in
\* their order.
C16_RoundTrip ==
    (ret.done /\ arg.fn = "round_trip" /\ ~TextStartsWithHash(arg.text)
              /\ (arg.outfile \/ ~arg.silent)) =>
        (IF arg.outfile THEN ret.sink ELSE ret.console)
            = Join(Split(RecordOf(arg.text), "\t"), "\t") \o <<"\n">>

\* ----------------------------------- utils print_variant_for_sorting alone
MaxInfo == 3         \* entries of the INFO field

\* float(x) and its text in "{0}".format: "5" is written as "5.0"
IsNumber(t) == Len(t) = 1 /\ IntOf(t[1]) # 0

Float(t) == t \o <<".0">>

NoScore == <<"-100">>

\* the local variables of the call; key and value are unbound at first
Locals == [bound |-> FALSE, key |-> <<>>, value |-> <<>>,
           rank_score |-> NoScore, raised |-> "none"]

\* for family_annotation in value.split(','): ...
RECURSIVE FamilyLoop(_, _, _)
FamilyLoop(families, family_id, st) ==
    IF families = <<>> \/ st.raised # "none" THEN st
    ELSE LET family_annotation == Split(Head(families), ":")
             score == IF Len(family_annotation) < 2 THEN [st EXCEPT !.raised = "IndexError"]
                      ELSE IF ~IsNumber(family_annotation[2])
                           THEN [st EXCEPT !.raised = "ValueError"]
                      ELSE [st EXCEPT !.rank_score = Float(family_annotation[2])]
         IN  IF family_id # None
             THEN FamilyLoop(Tail(families), family_id,
                             IF family_id = family_annotation[1] THEN score ELSE st)
             ELSE score

\* for info_annotation in variant_line[7].split(';'): ...
RECURSIVE InfoLoop(_, _, _)
InfoLoop(entries, family_id, st) ==
    IF entries = <<>> \/ st.raised # "none" THEN st
    ELSE LET info_annotation == Split(Head(entries), "=")
             assigned == IF Len(info_annotation) = 2
                         THEN [st EXCEPT !.bound = TRUE, !.key = info_annotation[1],
                                         !.value = info_annotation[2]]
                         ELSE st
         IN  InfoLoop(Tail(entries), family_id,
                 IF ~assigned.bound THEN [st EXCEPT !.raised = "UnboundLocalError"]
                 ELSE IF assigned.key = <<"RankScore">>
                      THEN FamilyLoop(Split(assigned.value, ","), family_id, assigned)
                 ELSE assigned)

\* utils print_variant_for_sorting: what is written, or the exception raised
rank_print_variant_for_sorting(variant_line, family_id) ==
    LET fields == Split(variant_line, "\t")
        st == IF Len(fields) < 8 THEN [Locals EXCEPT !.raised = "IndexError"]
              ELSE InfoLoop(Split(fields[8], ";"), family_id, Locals)
    IN  [raised |-> st.raised,
         sink |-> IF st.raised # "none" THEN <<>>
                  ELSE st.rank_score \o <<"\t">> \o Join(fields, "\t")]

\* the entries of an INFO field: a flag, the rank scores of two families,
\* another annotation
FlagEntry == <<"Exonic">>
RankEntry == <<"RankScore", "=", "f1", ":", "5", ",", "f2", ":", "7">>
OtherEntry == <<"1000GAF", "=", "1">>

InfoTexts == {Join(e, ";") : e \in SeqsUpTo({FlagEntry, RankEntry, OtherEntry}, MaxInfo) \ {<<>>}}

RankRecord(info) ==
    Join(<< <<"1">>, <<"10">>, <<".">>, <<"A">>, <<"C">>, <<".">>, <<"PASS">>, info >>, "\t")

FamilyIds == {None, <<"f1">>, <<"f2">>, <<"f3">>}

RankInit ==
    /\ PipelineIdle
    /\ arg \in [fn : {"print_variant_for_sorting"}, info : InfoTexts, family_id : FamilyIds]
    /\ ret = [done |-> FALSE, raised |-> "none", sink |-> <<>>]

CallPrintVariantForSorting ==
    /\ arg.fn = "print_variant_for_sorting"
    /\ ~ret.done
    /\ ret' = [done |-> TRUE] @@ rank_print_variant_for_sorting(RankRecord(arg.info), arg.family_id)
    /\ UNCHANGED <<pipeVars, arg>>

RankNext == CallPrintVariantForSorting

RankSpec == RankInit /\ [][RankNext]_vars

\* --------------------------------------------------------------- C17
\* the score the key stands for: that of family_id, or of the first family
\* when no family_id is given, among the families of the RankScore entry
ScoreOf(info, family_id) ==
    LET rank == SelectSeq(Split(info, ";"),
                          LAMBDA e : Len(Split(e, "=")) = 2 /\ Split(e, "=")[1] = <<"RankScore">>)
        families == IF rank = <<>> THEN <<>> ELSE Split(Split(rank[1], "=")[2], ",")
        mine == SelectSeq(families,
                          LAMBDA f : family_id = None \/ Split(f, ":")[1] = family_id)
    IN  IF mine = <<>> THEN NoScore ELSE Split(mine[1], ":")[2]

\* C17 as stated: for every ordering and shape of the INFO entries, flag
\* entries included, the call completes and writes the score of the family
\* asked for (of the first family without family_id, -100 without a
\* RankScore or a matching family), then the fields of the record unchanged.
C17_RankKey ==
    ret.done =>
        /\ ret.raised = "none"
        /\ \E key \in {ScoreOf(arg.info, arg.family_id),
                       Float(ScoreOf(arg.info, arg.family_id))} :
               ret.sink = key \o <<"\t">> \o RankRecord(arg.info)

\* ------------------------------------------------- the run, fairly scheduled
\* the steps of the driver process; an I/O error is not a step it must take
Driver ==
    \/ DriverSetup
    \/ DriverStart
    \/ DriverParse
    \/ DriverStopSigns
    \/ DriverJoinQueue
    \/ DriverPutEnd
    \/ DriverJoinPrinter
    \/ DriverSort
    \/ DriverPrintHeaders
    \/ DriverPrintVariant
    \/ DriverRemove

\* the steps of one VariantAnnotator process
Worker(w) == WorkerGet(w) \/ WorkerAnnotate(w) \/ WorkerStop(w)

\* every process that can take a step is scheduled in the end
Fairness ==
    /\ WF_vars(Driver)
    /\ \A w \in Workers : WF_vars(Worker(w))
    /\ WF_vars(PrinterWrite)

LiveInit == Init /\ options = [NoOptions EXCEPT !.outfile = TRUE]

LiveSpec == LiveInit /\ [][Next]_vars /\ Fairness

\* --------------------------------------------------------------- C18
\* the driver waits: in put on a full queue, in variant_queue.join() or in
\* var_printer.join()
DriverWaits ==
    \/ DriverBlocked
    \/ pc = "join_queue" /\ unfinished > 0
    \/ pc = "join_printer" /\ ppc # "done"

\* C18: under fair scheduling a driver that has read its input gets through
\* the stop signs, variant_queue.join() and var_printer.join() to the sort,
\* and every run ends; whenever the driver waits on a full queue or in a
\* join, a worker or the collector can take a step.
C18_Terminates ==
    /\ (pc = "stop_signs") ~> (pc = "sort")
    /\ <>Terminal
    /\ [](DriverWaits => ENABLED ((\E w \in Workers : Worker(w)) \/ PrinterWrite))

C18_Witness ==
    /\ pc = "done"
    /\ M = MaxRecords /\ M > QueueSize
    /\ num_annotators = MaxWorkers
    /\ Len(FinalOutput) > M

\* --------------------------------------------------------------- C19
\* the results on the channel, the end marker apart
ResultsIn(q) == SelectSeq(q, LAMBDA r : r # None)

\* C19: the end marker is put when no worker holds a record and every
\* record taken from the work queue has its result pushed; the marker is the
\* last element of the result channel, with all M results written or ahead
\* of it; a collector that has stopped has written every one of the M
\* results to the temp file exactly once.
C19_EndMarkerLast ==
    /\ [][(pc = "put_end" /\ pc' = "join_printer") =>
             /\ variant_queue = <<>> /\ unfinished = 0
             /\ \A w \in Started : wjob[w] = None /\ wpc[w] = "done"
             /\ Len(temp_file) + Len(ResultsIn(results)) = M
             /\ results' = Append(results, None)]_vars
    /\ []((\E i \in 1..Len(results) : results[i] = None) =>
             /\ results[Len(results)] = None
             /\ Len(ResultsIn(results)) = Len(results) - 1
             /\ Len(temp_file) + Len(ResultsIn(results)) = M)
    /\ [](ppc = "done" =>
             /\ results = <<>>
             /\ Len(temp_file) = M
             /\ \A i \in 1..M :
                    Cardinality({k \in 1..Len(temp_file) :
                        SpillId(temp_file[k]) = Id(DataLines(variant_file)[i])}) = 1)

C19_Witness ==
    /\ pc = "join_printer"
    /\ ppc = "done"
    /\ results = <<>>
    /\ M = MaxRecords
    /\ Len(temp_file) = M
    /\ num_annotators = MaxWorkers

\* ------------------------------------------- the reading of the input alone
MaxLines == 3        \* lines of the input text

\* the lines an input is made of: meta line, header line, data line, data
\* line with an empty last field, blank line
LineKinds ==
    { <<"#", "#", "m", "\n">>, <<"#", "h", "\n">>, <<"a", "\n">>,
      <<"b", "\t", "\n">>, <<"\n">> }

RECURSIVE Concat(_)
Concat(ls) == IF ls = <<>> THEN <<>> ELSE Head(ls) \o Concat(Tail(ls))

InputTexts == {Concat(ls) : ls \in SeqsUpTo(LineKinds, MaxLines)}

\* the lines the header scan has read when it ends: the leading '#' lines
\* and the line it breaks on
RECURSIVE ScanStop(_, _)
ScanStop(lines, n) ==
    IF n = Len(lines) THEN n
    ELSE IF TextStartsWithHash(RStrip(lines[n + 1])) THEN ScanStop(lines, n + 1)
    ELSE n + 1

IngestInit ==
    /\ PipelineIdle
    /\ arg \in [fn : {"ingest"}, text : InputTexts]
    /\ ret = [pc |-> "parse_header", filepos |-> 0, jobs |-> <<>>]

\* the parse loop goes on where the header scan stopped: seek(0) is missing
IngestScan_noseek ==
    /\ ret.pc = "parse_header"
    /\ ret' = [ret EXCEPT !.pc = "parse", !.filepos = ScanStop(FileLines(arg.text), 0)]
    /\ UNCHANGED <<pipeVars, arg>>

\* the header scan and variant_file.seek(0)
IngestScan ==
    /\ ret.pc = "parse_header"
    /\ ret' = [ret EXCEPT !.pc = "parse", !.filepos = 0]
    /\ UNCHANGED <<pipeVars, arg>>

\* for line in variant_file: line = line.rstrip(); if not
\* line.startswith('#'): variant_queue.put(line)
IngestParse ==
    /\ ret.pc = "parse"
    /\ LET lines == FileLines(arg.text)
       IN  IF ret.filepos = Len(lines)
           THEN ret' = [ret EXCEPT !.pc = "stop_signs"]
           ELSE LET line == RStrip(lines[ret.filepos + 1])
                IN  ret' = [ret EXCEPT !.filepos = @ + 1,
                                       !.jobs = IF TextStartsWithHash(line) THEN @
                                                ELSE Append(@, line)]
    /\ UNCHANGED <<pipeVars, arg>>

IngestNext == IngestScan \/ IngestParse

IngestSpec == IngestInit /\ [][IngestNext]_vars

\* --------------------------------------------------------------- C20
\* the input lines that do not start with '#', in input order
InputDataLines(t) == SelectSeq(FileLines(t), LAMBDA l : ~TextStartsWithHash(l))

IsPrefix(a, b) == Len(a) <= Len(b) /\ a = SubSeq(b, 1, Len(a))

====
